---- MODULE Spec2Model ----
(***************************************************************************)
(* Passport-post store of passport_Backend_datacollect.                    *)
(*                                                                         *)
(* The store is the PassportPost collection (src/db/connection.js, the     *)
(* passportSchema) and the operations are the request handlers of          *)
(* src/controllers/passportController.js, reached through the router of    *)
(* src/unnamed/part_002 (protect, then validatePassportEntries on POST /   *)
(* and PUT /:id, then the handler).                                        *)
(*                                                                         *)
(* A JavaScript object is a function from its keys to its values: a key    *)
(* the object does not carry is outside its DOMAIN.  A string is a         *)
(* sequence of one-character strings, so that the schema's trim, the       *)
(* length rules and the link pattern are computed and not assumed.         *)
(* Dates are milliseconds.                                                 *)
(***************************************************************************)
EXTENDS Integers, Sequences, FiniteSets, TLC

VARIABLES
  posts,    \* the PassportPost collection, in storage (insertion) order
  now,      \* Date.now()
  nextId,   \* next ObjectId the server generates
  req,      \* the request being answered, NoReq when the server is idle
  resp,     \* its response, NoResp when the server is idle
  users,    \* the User collection, in storage (insertion) order
  emitted,  \* the notifications io.emit has broadcast
  audit,    \* the records logDeletedPassport has appended to the log files
  tasks     \* the requests in flight when requests overlap: their local state

vars == <<posts, now, nextId, req, resp, users, emitted, audit, tasks>>

\* ---- bounds of the model ------------------------------------------------
MaxPosts == 2
MaxTime == 3
MaxId == 6
MaxBatch == 2
MaxUsers == 3

\* ---- users (the Access Guard hands req.user to the handlers) ------------
Users == {"alice", "root"}

Role(u) == IF u = "root" THEN "admin" ELSE "user"

NoUser == "none"

\* ---- strings ------------------------------------------------------------
Space == " "

RECURSIVE TrimLeft(_)
TrimLeft(s) ==
  IF s /= <<>> /\ Head(s) = Space THEN TrimLeft(Tail(s)) ELSE s

RECURSIVE TrimRight(_)
TrimRight(s) ==
  IF s /= <<>> /\ s[Len(s)] = Space THEN TrimRight(SubSeq(s, 1, Len(s) - 1)) ELSE s

\* the schema's `trim: true`
Trim(s) == TrimRight(TrimLeft(s))


\* ---- JavaScript objects -------------------------------------------------
\* { ...a, ...b }: the keys of both, b's value where both carry the key
Spread(a, b) ==
  [k \in DOMAIN a \cup DOMAIN b |-> IF k \in DOMAIN b THEN b[k] ELSE a[k]]

\* const { key, ...rest } = a
Omit(a, key) == [k \in DOMAIN a \ {key} |-> a[k]]

Has(o, key) == key \in DOMAIN o

\* ---- field values the callers send --------------------------------------
PN1 == <<"P", "1", "0", "0", "1">>
PN2 == <<"P", "2", "0", "0", "2">>
PN2Padded == <<Space>> \o PN2 \o <<Space>>
PNBlank == <<Space, Space, Space, Space, Space>>
LinkOk == <<"h", "t", "t", "p", ":", "/", "/", "x", ".", "t">>
LinkNoProtocol == <<"x", ".", "t">>
India == <<"I", "n", "d", "i", "a">>
Pune == <<"P", "u", "n", "e">>
\* a postDate a caller puts in a payload: a date that is never the server's
CallerDate == 0 - 1

\* ---- express-validator rules (validatePassportEntries) ------------------
PassportNumberMin == 5
PassportNumberMax == 20
CountryMin == 2
CountryMax == 50

HasPrefix(s, p) == Len(s) >= Len(p) /\ SubSeq(s, 1, Len(p)) = p

HttpPrefix == <<"h", "t", "t", "p", ":", "/", "/">>
HttpsPrefix == <<"h", "t", "t", "p", "s", ":", "/", "/">>

\* validator.js isURL with its defaults: the protocol is optional, the host
\* needs a dot and there is no blank in the string
IsURL(s) ==
  LET host == IF HasPrefix(s, HttpPrefix) THEN SubSeq(s, Len(HttpPrefix) + 1, Len(s))
              ELSE IF HasPrefix(s, HttpsPrefix) THEN SubSeq(s, Len(HttpsPrefix) + 1, Len(s))
              ELSE s
  IN /\ \E i \in 2..(Len(host) - 1) : host[i] = "."
     /\ \A i \in 1..Len(s) : s[i] /= Space

\* a body whose `passports` is an array with at least one element
IsNonEmptyArray(body) == Has(body, "passports") /\ Len(body.passports) > 0

ValidEntry(p) ==
  /\ Has(p, "passportNumber")
  /\ Len(p.passportNumber) >= PassportNumberMin
  /\ Len(p.passportNumber) <= PassportNumberMax
  /\ Has(p, "link") /\ p.link /= <<>> /\ IsURL(p.link)
  /\ Has(p, "issuedCountry")
  /\ Len(p.issuedCountry) >= CountryMin
  /\ Len(p.issuedCountry) <= CountryMax

validatePassportEntries(body) ==
  /\ IsNonEmptyArray(body)
  /\ \A i \in 1..Len(body.passports) : ValidEntry(body.passports[i])

\* ---- passportSchema -----------------------------------------------------
TrimmedPaths == {"passportNumber", "city", "issuedCountry"}

\* the link's match: /^(http|https):\/\/[^ "]+$/
LinkMatches(s) ==
  LET rest == IF HasPrefix(s, HttpPrefix) THEN SubSeq(s, Len(HttpPrefix) + 1, Len(s))
              ELSE IF HasPrefix(s, HttpsPrefix) THEN SubSeq(s, Len(HttpsPrefix) + 1, Len(s))
              ELSE <<>>
  IN /\ rest /= <<>>
     /\ \A i \in 1..Len(rest) : rest[i] /= Space /\ rest[i] /= "\""

\* casting a plain object to a subdocument of `passports`: the caller's _id
\* is kept when there is one and an ObjectId is generated otherwise, the
\* trimmed paths are trimmed, postDate defaults to Date.now
CastPassport(o, freshId) ==
  LET withId == IF Has(o, "_id") THEN o ELSE Spread(o, [_id |-> freshId])
      withDate == IF Has(withId, "postDate") THEN withId
                  ELSE Spread(withId, [postDate |-> now])
  IN [k \in DOMAIN withDate |->
        IF k \in TrimmedPaths THEN Trim(withDate[k]) ELSE withDate[k]]

RECURSIVE CastPassports(_, _)
CastPassports(list, freshId) ==
  IF list = <<>> THEN <<>>
  ELSE IF Has(Head(list), "_id")
       THEN <<CastPassport(Head(list), freshId)>> \o CastPassports(Tail(list), freshId)
       ELSE <<CastPassport(Head(list), freshId)>> \o CastPassports(Tail(list), freshId + 1)

\* ObjectIds the cast of a list generates
NumGenerated(list) == Cardinality({i \in 1..Len(list) : ~Has(list[i], "_id")})

\* the validators save() runs on a subdocument
PassportIsValid(d) ==
  /\ Has(d, "passportNumber") /\ d.passportNumber /= <<>>
  /\ Has(d, "link") /\ d.link /= <<>> /\ LinkMatches(d.link)
  /\ Has(d, "issuedCountry") /\ d.issuedCountry /= <<>>
  /\ Len(d.issuedCountry) >= CountryMin
  /\ Len(d.issuedCountry) <= CountryMax

AllValid(list) == \A i \in 1..Len(list) : PassportIsValid(list[i])

\* ---- helpers of the controller ------------------------------------------
IstOffsetMs == (11 * 60 * 60 * 1000) \div 2

getCurrentIST == now + IstOffsetMs

\* Array.prototype.findIndex on the _id, 0 where JavaScript answers -1
RECURSIVE FindIndexFrom(_, _, _)
FindIndexFrom(list, id, i) ==
  IF i > Len(list) THEN 0
  ELSE IF list[i]._id = id THEN i
  ELSE FindIndexFrom(list, id, i + 1)

findIndex(list, id) == FindIndexFrom(list, id, 1)

\* the loop without its break: the last post whose list holds the _id
RECURSIVE LocateLast(_, _)
LocateLast(all, id) ==
  IF all = <<>> THEN 0
  ELSE IF findIndex(all[Len(all)].passports, id) /= 0 THEN Len(all)
  ELSE LocateLast(SubSeq(all, 1, Len(all) - 1), id)

\* the loop `for (const post of posts)` with its break: the first post, in
\* storage order, whose list holds the _id; 0 when no post does
RECURSIVE LocateFrom(_, _, _)
LocateFrom(all, id, i) ==
  IF i > Len(all) THEN 0
  ELSE IF findIndex(all[i].passports, id) /= 0 THEN i
  ELSE LocateFrom(all, id, i + 1)

Locate(all, id) == LocateFrom(all, id, 1)

\* PassportPost.findById, 0 for null
RECURSIVE FindByIdFrom(_, _, _)
FindByIdFrom(all, id, i) ==
  IF i > Len(all) THEN 0
  ELSE IF all[i]._id = id THEN i
  ELSE FindByIdFrom(all, id, i + 1)

findById(all, id) == FindByIdFrom(all, id, 1)

\* post.deleteOne()
RemoveAt(s, i) == SubSeq(s, 1, i - 1) \o SubSeq(s, i + 1, Len(s))

\* ---- the state ----------------------------------------------------------
NoReq == [op |-> "none"]
NoResp == [status |-> 0]

\* the accounts of the callers of the passport routes
Account(id) == [_id |-> id, role |-> Role(id), isActive |-> TRUE]

Init ==
  /\ posts = <<>>
  /\ now = 0
  /\ nextId = 1
  /\ req = NoReq
  /\ resp = NoResp
  /\ users = <<Account("alice"), Account("root")>>
  /\ emitted = 0
  /\ audit = <<>>
  /\ tasks = <<>>


\* ---- what the callers send ----------------------------------------------
\* the _id of every entry in the store
StoredIds(all) ==
  UNION {{all[i].passports[j]._id : j \in 1..Len(all[i].passports)} : i \in 1..Len(all)}

\* an ObjectId the server never generates
ForeignId == MaxId + 1

\* the _id values a caller puts in a payload or in the path
CallerIds == StoredIds(posts) \cup {ForeignId}

Dated(o) == Spread(o, [postDate |-> CallerDate])

WithId(o, id) == Spread(o, [_id |-> id])

RequiredFields(pn) == [passportNumber |-> pn, link |-> LinkOk, issuedCountry |-> India]

\* an entry without _id and without postDate
EntryA == RequiredFields(PN1)

\* an entry with a padded passport number and a postDate of the caller's
EntryB == Dated(RequiredFields(PN2Padded))

\* entries that validatePassportEntries or the schema refuses
BadEntries ==
  { [link |-> LinkOk, issuedCountry |-> India],
    [passportNumber |-> PN1, link |-> LinkNoProtocol, issuedCountry |-> India],
    [passportNumber |-> PNBlank, link |-> LinkOk, issuedCountry |-> India] }

\* the `passports` lists of the bodies of POST / and PUT /:id
PassportLists ==
  {<<EntryA>>, <<EntryB>>, <<EntryA, EntryB>>}
    \cup {<<WithId(EntryB, id)>> : id \in CallerIds}
    \cup {<<WithId(EntryB, id), EntryA>> : id \in CallerIds}
    \cup {<<WithId(EntryA, id), WithId(EntryB, id)>> : id \in CallerIds}

\* bodies of POST / and PUT /:id
PostBodies ==
  {<<>>, [passports |-> <<>>]}
    \cup {[passports |-> l] : l \in PassportLists}
    \cup {[passports |-> <<b>>] : b \in BadEntries}

\* bodies of PUT /passport/:passportId: the entry itself
PassportBodies ==
  {EntryA, Spread(EntryB, [city |-> Pune]), [city |-> Pune]}
    \cup {WithId(EntryA, id) : id \in CallerIds}

RECURSIVE ListsUpTo(_, _)
ListsUpTo(S, n) ==
  IF n = 0 THEN {<<>>}
  ELSE LET shorter == ListsUpTo(S, n - 1)
       IN shorter \cup {Append(l, x) : l \in {m \in shorter : Len(m) = n - 1}, x \in S}

\* bodies of DELETE /passports
BatchBodies == {<<>>} \cup {[passportIds |-> l] : l \in ListsUpTo(CallerIds, MaxBatch)}

\* the :id of a request on a post
PostIds == {posts[i]._id : i \in 1..Len(posts)} \cup {ForeignId}

\* ---- the handlers -------------------------------------------------------
Idle == req = NoReq

\* the server is idle and the run has requests left
Ready == Idle /\ now < MaxTime

\* Reject after the collection was emptied
RejectAfterWrite(status) ==
  /\ resp' = [status |-> status]
  /\ posts' = <<>>
  /\ UNCHANGED <<now, nextId, users, emitted, audit, tasks>>

\* next(new ErrorResponse(message, status)): nothing is written
Reject(status) ==
  /\ resp' = [status |-> status]
  /\ UNCHANGED <<posts, now, nextId, users, emitted, audit, tasks>>

\* the negation of `post.createdBy.toString() !== req.user.id &&
\* req.user.role !== 'admin'`
AnyCaller(post, user) == TRUE

\* IsOwnerOrAdmin without the admin's pass
OwnerOnly(post, user) == post.createdBy = user

IsOwnerOrAdmin(post, user) == post.createdBy = user \/ Role(user) = "admin"

\* POST /  validatePassportEntries, createPassportPost
createPassportPost(user, body) ==
  /\ Ready
  /\ req' = [op |-> "createPassportPost", user |-> user, body |-> body]
  /\ IF ~validatePassportEntries(body) THEN Reject(400)
     ELSE IF ~IsNonEmptyArray(body) THEN Reject(400)
     ELSE
       LET currentIST == getCurrentIST
           passportsWithDate ==
             [i \in 1..Len(body.passports) |->
                Spread(body.passports[i], [postDate |-> currentIST])]
           docs == CastPassports(passportsWithDate, nextId + 1)
           passportPost ==
             [_id |-> nextId, passports |-> docs, createdBy |-> user, updatedBy |-> NoUser]
       IN IF ~AllValid(docs)
          THEN \E status \in {400, 500} : Reject(status)
          ELSE /\ Len(posts) < MaxPosts
               /\ nextId + NumGenerated(passportsWithDate) <= MaxId
               /\ posts' = Append(posts, passportPost)
               /\ nextId' = nextId + 1 + NumGenerated(passportsWithDate)
               /\ resp' = [status |-> 201, data |-> passportPost]
               /\ UNCHANGED <<now, users, emitted, audit, tasks>>

\* the map of updatePassportPost: _id -> {_id, postDate} of the post's entries,
\* a later entry of the same _id overwriting an earlier one
RECURSIVE ExistingPassportsMap(_)
ExistingPassportsMap(list) ==
  IF list = <<>> THEN <<>>
  ELSE LET last == list[Len(list)]
           before == ExistingPassportsMap(SubSeq(list, 1, Len(list) - 1))
       IN [k \in DOMAIN before \cup {last._id} |->
             IF k = last._id THEN [_id |-> last._id, postDate |-> last.postDate]
             ELSE before[k]]

\* ProcessPassport with the spread of a new entry the other way round: the
\* caller's postDate wins
ProcessPassportCallerDate(passport, existingPassportsMap, currentIST) ==
  IF Has(passport, "_id") /\ passport._id \in DOMAIN existingPassportsMap
  THEN Spread(Spread(Omit(passport, "postDate"),
                     [_id |-> existingPassportsMap[passport._id]._id]),
              [postDate |-> existingPassportsMap[passport._id].postDate])
  ELSE Spread([postDate |-> currentIST], passport)

\* ProcessPassport with a matched entry stripped of its _id
ProcessPassportNewId(passport, existingPassportsMap, currentIST) ==
  IF Has(passport, "_id") /\ passport._id \in DOMAIN existingPassportsMap
  THEN Spread(Omit(Omit(passport, "postDate"), "_id"),
              [postDate |-> existingPassportsMap[passport._id].postDate])
  ELSE Spread(passport, [postDate |-> currentIST])

\* the passports.map callback of updatePassportPost
ProcessPassport(passport, existingPassportsMap, currentIST) ==
  IF Has(passport, "_id") /\ passport._id \in DOMAIN existingPassportsMap
  THEN LET existingPassport == existingPassportsMap[passport._id]
           passportUpdates == Omit(passport, "postDate")
       IN Spread(Spread(passportUpdates, [_id |-> existingPassport._id]),
                 [postDate |-> existingPassport.postDate])
  ELSE Spread(passport, [postDate |-> currentIST])

\* sort('-createdAt'): the latest created post first
Reverse(s) == [i \in 1..Len(s) |-> s[Len(s) + 1 - i]]

\* GET /  getPassportPosts
getPassportPosts(user) ==
  /\ Ready
  /\ req' = [op |-> "getPassportPosts", user |-> user]
  /\ resp' = [status |-> 200, count |-> Len(posts), data |-> Reverse(posts)]
  /\ UNCHANGED <<posts, now, nextId, users, emitted, audit, tasks>>

\* GET /:id  getPassportPost
getPassportPost(user, id) ==
  /\ Ready
  /\ req' = [op |-> "getPassportPost", user |-> user, id |-> id]
  /\ LET i == findById(posts, id) IN
     IF i = 0 THEN Reject(404)
     ELSE IF ~IsOwnerOrAdmin(posts[i], user) THEN Reject(403)
     ELSE /\ resp' = [status |-> 200, data |-> posts[i]]
          /\ UNCHANGED <<posts, now, nextId, users, emitted, audit, tasks>>

\* the answer of getSinglePassport on a store
SinglePassportAnswer(all, user, passportId) ==
  LET i == Locate(all, passportId) IN
  IF i = 0 THEN [status |-> 404]
  ELSE
    LET foundPost == all[i]
        foundPassport == foundPost.passports[findIndex(foundPost.passports, passportId)]
    IN IF ~IsOwnerOrAdmin(foundPost, user) THEN [status |-> 403]
       ELSE [status |-> 200,
             data |-> [passport |-> foundPassport,
                       createdBy |-> foundPost.createdBy,
                       postId |-> foundPost._id]]

\* GET /passport/:passportId  getSinglePassport
getSinglePassport(user, passportId) ==
  /\ Ready
  /\ req' = [op |-> "getSinglePassport", user |-> user, id |-> passportId]
  /\ resp' = SinglePassportAnswer(posts, user, passportId)
  /\ UNCHANGED <<posts, now, nextId, users, emitted, audit, tasks>>

\* PUT /:id  validatePassportEntries, updatePassportPost
updatePassportPost(user, id, body) ==
  /\ Ready
  /\ req' = [op |-> "updatePassportPost", user |-> user, id |-> id, body |-> body]
  /\ LET i == findById(posts, id) IN
     IF ~validatePassportEntries(body) THEN Reject(400)
     ELSE IF i = 0 THEN Reject(404)
     ELSE IF ~IsOwnerOrAdmin(posts[i], user) THEN Reject(403)
     ELSE IF ~IsNonEmptyArray(body) THEN Reject(400)
     ELSE
       LET existingPassportsMap == ExistingPassportsMap(posts[i].passports)
           currentIST == getCurrentIST
           processedPassports ==
             [j \in 1..Len(body.passports) |->
                ProcessPassport(body.passports[j], existingPassportsMap, currentIST)]
           docs == CastPassports(processedPassports, nextId)
           updatedPost == [posts[i] EXCEPT !.passports = docs, !.updatedBy = user]
       IN IF ~AllValid(docs) THEN Reject(500)
          ELSE /\ nextId + NumGenerated(processedPassports) <= MaxId + 1
               /\ posts' = [posts EXCEPT ![i] = updatedPost]
               /\ nextId' = nextId + NumGenerated(processedPassports)
               /\ resp' = [status |-> 200, data |-> updatedPost]
               /\ UNCHANGED <<now, users, emitted, audit, tasks>>

\* ReplacePassport that keeps the replaced entry only
ReplacePassportOnly(post, passportIndex, doc, user) ==
  [post EXCEPT !.passports = <<doc>>, !.updatedBy = user]

\* ReplacePassport that hands the post over to the caller
ReplacePassportTakeOver(post, passportIndex, doc, user) ==
  [post EXCEPT !.passports[passportIndex] = doc, !.updatedBy = user,
               !.createdBy = user]

\* post.passports[passportIndex] = updatedPassport; post.updatedBy = req.user.id
ReplacePassport(post, passportIndex, doc, user) ==
  [post EXCEPT !.passports[passportIndex] = doc, !.updatedBy = user]

\* PUT /passport/:passportId  updateSinglePassport
updateSinglePassport(user, passportId, body) ==
  /\ Ready
  /\ req' = [op |-> "updateSinglePassport", user |-> user, id |-> passportId, body |-> body]
  /\ LET i == Locate(posts, passportId) IN
     IF i = 0 THEN Reject(404)
     ELSE
       LET post == posts[i]
           passportIndex == findIndex(post.passports, passportId)
           originalPassport == post.passports[passportIndex]
           updatedPassport ==
             Spread(Spread([_id |-> originalPassport._id], body),
                    [postDate |-> originalPassport.postDate])
           doc == CastPassport(updatedPassport, nextId)
           updatedPost == ReplacePassport(post, passportIndex, doc, user)
       IN IF ~IsOwnerOrAdmin(post, user) THEN Reject(403)
          ELSE IF ~PassportIsValid(doc) THEN Reject(500)
          ELSE /\ posts' = [posts EXCEPT ![i] = updatedPost]
               /\ resp' = [status |-> 200, data |-> [post |-> updatedPost, updatedPassport |-> doc]]
               /\ UNCHANGED <<now, nextId, users, emitted, audit, tasks>>

\* the record logDeletedPassport appends to the log file of the day
LogEntry(passportData, deletedBy) ==
  [deletedAt |-> now, deletedBy |-> deletedBy, passportData |-> passportData]

\* logDeletedPassport: the log after the call; logFails: fs throws and nothing
\* is appended
logDeletedPassport(log, passportData, deletedBy, logFails) ==
  IF logFails THEN log ELSE Append(log, LogEntry(passportData, deletedBy))

\* logDeletedPassport without its catch: the error reaches the caller
LogRethrows(logFails) == logFails

\* what the caller of logDeletedPassport sees of a failure: the catch of
\* logDeletedPassport swallows the error, the call never throws
LogThrows(logFails) == FALSE

\* DELETE /:id  deletePassportPost; writeFails: post.deleteOne() throws
deletePassportPost(user, id, logFails, writeFails) ==
  /\ Ready
  /\ req' = [op |-> "deletePassportPost", user |-> user, id |-> id,
             logFails |-> logFails, writeFails |-> writeFails]
  /\ LET i == findById(posts, id) IN
     IF i = 0 THEN Reject(404)
     ELSE /\ audit' = logDeletedPassport(audit, posts[i], user, logFails)
          /\ IF LogThrows(logFails) \/ writeFails
             THEN /\ posts' = posts
                  /\ resp' = [status |-> 500]
             ELSE /\ posts' = RemoveAt(posts, i)
                  /\ resp' = [status |-> 200]
          /\ UNCHANGED <<now, nextId, users, emitted, tasks>>

\* DeleteEntry without the branch that deletes a post of one entry
DeleteEntryNoCollapse(all, i, passportIndex, user) ==
  [all EXCEPT ![i] = [@ EXCEPT !.passports = RemoveAt(@, passportIndex),
                               !.updatedBy = user]]

\* the body of the loop of deleteSinglePassport and of deleteMultiplePassports
\* once the entry is found at passportIndex of the i-th post
DeleteEntry(all, i, passportIndex, user) ==
  IF Len(all[i].passports) = 1
  THEN RemoveAt(all, i)
  ELSE [all EXCEPT ![i] = [@ EXCEPT !.passports = RemoveAt(@, passportIndex),
                                     !.updatedBy = user]]

\* the store after deleteSinglePassport; writeFails: post.deleteOne() or
\* post.save() throws
deleteSinglePassportStore(all, passportId, user, writeFails) ==
  LET i == Locate(all, passportId) IN
  IF i = 0 \/ writeFails THEN all
  ELSE DeleteEntry(all, i, findIndex(all[i].passports, passportId), user)

\* DELETE /passport/:passportId  deleteSinglePassport
deleteSinglePassport(user, passportId, logFails, writeFails) ==
  /\ Ready
  /\ req' = [op |-> "deleteSinglePassport", user |-> user, id |-> passportId,
             logFails |-> logFails, writeFails |-> writeFails]
  /\ LET i == Locate(posts, passportId) IN
     IF i = 0 THEN Reject(404)
     ELSE LET passportToDelete == posts[i].passports[findIndex(posts[i].passports, passportId)]
          IN /\ audit' = logDeletedPassport(audit, passportToDelete, user, logFails)
             /\ IF LogThrows(logFails) \/ writeFails
                THEN /\ posts' = posts
                     /\ resp' = [status |-> 500]
                ELSE /\ posts' = deleteSinglePassportStore(posts, passportId, user, FALSE)
                     /\ resp' = [status |-> 200,
                                 data |-> [deletedPassport |-> passportId,
                                           postId |-> posts[i]._id]]
             /\ UNCHANGED <<now, nextId, users, emitted, tasks>>

\* the error entries of deleteMultiplePassports
NotFoundError(passportId) == [id |-> passportId, message |-> "Passport not found"]

WriteError(passportId) == [id |-> passportId, message |-> "write failed"]

\* DeleteLoop that gives up at the first identifier that is in no post
RECURSIVE DeleteLoopStopsAtMiss(_, _, _, _, _, _)
DeleteLoopStopsAtMiss(st, passportIds, k, user, failing, logFails) ==
  IF k > Len(passportIds) THEN st
  ELSE LET passportId == passportIds[k]
           i == Locate(st.posts, passportId)
       IN IF i = 0
          THEN [st EXCEPT !.errors = Append(@, NotFoundError(passportId))]
          ELSE LET passportIndex == findIndex(st.posts[i].passports, passportId)
                   passportToDelete == st.posts[i].passports[passportIndex]
               IN DeleteLoopStopsAtMiss(
                    [st EXCEPT !.posts = DeleteEntry(@, i, passportIndex, user),
                               !.deleted = Append(@, passportToDelete)],
                    passportIds, k + 1, user, failing, logFails)

\* the loop of deleteMultiplePassports over passportIds: the store, the log,
\* the deleted entries and the errors after the identifiers from k on;
\* `failing` holds the positions of the list at which post.deleteOne() or
\* post.save() throws, which the catch of the loop body turns into an error
\* entry
RECURSIVE DeleteLoop(_, _, _, _, _, _)
DeleteLoop(st, passportIds, k, user, failing, logFails) ==
  IF k > Len(passportIds) THEN st
  ELSE LET passportId == passportIds[k]
           i == Locate(st.posts, passportId)
       IN IF i = 0
          THEN DeleteLoop([st EXCEPT !.errors = Append(@, NotFoundError(passportId))],
                          passportIds, k + 1, user, failing, logFails)
          ELSE LET passportIndex == findIndex(st.posts[i].passports, passportId)
                   passportToDelete == st.posts[i].passports[passportIndex]
                   logged == logDeletedPassport(st.log, passportToDelete, user, logFails)
               IN IF LogThrows(logFails)
                  THEN DeleteLoop([st EXCEPT !.errors = Append(@, WriteError(passportId))],
                                  passportIds, k + 1, user, failing, logFails)
                  ELSE IF k \in failing
                  THEN DeleteLoop([st EXCEPT !.log = logged,
                                             !.deleted = Append(@, passportToDelete),
                                             !.errors = Append(@, WriteError(passportId))],
                                  passportIds, k + 1, user, failing, logFails)
                  ELSE DeleteLoop([st EXCEPT !.log = logged,
                                             !.posts = DeleteEntry(@, i, passportIndex, user),
                                             !.deleted = Append(@, passportToDelete)],
                                  passportIds, k + 1, user, failing, logFails)

\* the positions at which a write of the database fails: none, or one
FailingSets == {{}} \cup {{k} : k \in 1..MaxBatch}

\* DELETE /passports  deleteMultiplePassports
deleteMultiplePassports(user, body, failing, logFails) ==
  /\ Ready
  /\ req' = [op |-> "deleteMultiplePassports", user |-> user, body |-> body,
             logFails |-> logFails, failing |-> failing]
  /\ IF ~Has(body, "passportIds") \/ Len(body.passportIds) = 0 THEN Reject(400)
     ELSE LET end == DeleteLoop([posts |-> posts, log |-> audit,
                                 deleted |-> <<>>, errors |-> <<>>],
                                body.passportIds, 1, user, failing, logFails)
              answer == [status |-> 200,
                         count |-> Len(end.deleted),
                         deleted |-> [k \in 1..Len(end.deleted) |-> end.deleted[k]._id]]
          IN /\ posts' = end.posts
             /\ audit' = end.log
             /\ resp' = IF Len(end.errors) > 0
                        THEN Spread(answer, [errors |-> end.errors])
                        ELSE answer
             /\ UNCHANGED <<now, nextId, users, emitted, tasks>>

\* the response is sent; the next request comes later
Finish ==
  /\ ~Idle
  /\ req' = NoReq
  /\ resp' = NoResp
  /\ now' = now + 1
  /\ UNCHANGED <<posts, nextId, users, emitted, audit, tasks>>

\* ---- the requests -------------------------------------------------------
Next ==
  \/ \E user \in Users, body \in PostBodies : createPassportPost(user, body)
  \/ \E user \in Users : getPassportPosts(user)
  \/ \E user \in Users, id \in PostIds : getPassportPost(user, id)
  \/ \E user \in Users, id \in CallerIds : getSinglePassport(user, id)
  \/ \E user \in Users, id \in PostIds, body \in PostBodies : updatePassportPost(user, id, body)
  \/ \E user \in Users, id \in CallerIds, body \in PassportBodies :
       updateSinglePassport(user, id, body)
  \/ \E user \in Users, id \in PostIds, logFails \in BOOLEAN, writeFails \in BOOLEAN :
       deletePassportPost(user, id, logFails, writeFails)
  \/ \E user \in Users, id \in CallerIds, logFails \in BOOLEAN, writeFails \in BOOLEAN :
       deleteSinglePassport(user, id, logFails, writeFails)
  \/ \E user \in Users, body \in BatchBodies, failing \in FailingSets, logFails \in BOOLEAN :
       deleteMultiplePassports(user, body, failing, logFails)
  \/ Finish

Spec == Init /\ [][Next]_vars

\* ---- the accounts and the Access Guard ----------------------------------
\* the database with no account yet
\* passwords of request bodies: two of six characters or more, one shorter
Secret0 == <<"s", "e", "c", "r", "e", "t", "0">>
Secret1 == <<"s", "e", "c", "r", "e", "1">>
TooShort == <<"s", "e", "c", "1">>

\* the shortest password the handlers accept
PasswordMin == 6

\* what user.save() stores for a password: the hash, never the text itself
Hash(password) == <<"$">> \o password

\* user.matchPassword(entered): the entered text against the stored hash
matchPassword(user, entered) == Hash(entered) = user.password

\* the database of the account handlers when the server starts: empty, or an
\* admin and a user that earlier requests of create-admin and register stored
InitialUsers ==
  {<<>>,
   <<[_id |-> 1, role |-> "admin", isActive |-> TRUE, password |-> Hash(Secret0)],
     [_id |-> 2, role |-> "user", isActive |-> TRUE, password |-> Hash(Secret0)]>>}

InitUsers ==
  /\ posts = <<>>
  /\ now = 0
  /\ users \in InitialUsers
  /\ nextId = Len(users) + 1
  /\ req = NoReq
  /\ resp = NoResp
  /\ emitted = 0
  /\ audit = <<>>
  /\ tasks = <<>>

\* the Authorization header: none, a bearer token that jwt.verify refuses, or
\* a token signed for the account id
NoToken == [kind |-> "none"]
BadToken == [kind |-> "invalid"]
TokenOf(id) == [kind |-> "jwt", id |-> id]

Tokens == {NoToken, BadToken} \cup {TokenOf(id) : id \in 1..MaxUsers}

\* protect without the check of isActive
protectIgnoresActive(token) ==
  IF token.kind /= "jwt" THEN 0 ELSE findById(users, token.id)

\* protect: the position in users of the account that becomes req.user, 0
\* where protect answers 401 (no token, invalid token, no such user, inactive)
protect(token) ==
  IF token.kind /= "jwt" THEN 0
  ELSE LET i == findById(users, token.id)
       IN IF i = 0 THEN 0
          ELSE IF ~users[i].isActive THEN 0
          ELSE i

\* authorize('admin') and the handlers' own `req.user.role !== 'admin'`
authorize(i, role) == users[i].role = role

\* next(new ErrorResponse(message, status)) and res.status(status).json of an
\* error: nothing is written
RejectUsers(status) ==
  /\ resp' = [status |-> status]
  /\ UNCHANGED <<posts, now, nextId, users, emitted, audit, tasks>>

\* User.create: the account is stored under a generated _id, with the hash
\* of the password of the body
CreateUser(role, isActive, answer) ==
  LET user == [_id |-> nextId, role |-> role, isActive |-> isActive,
               password |-> Hash(Secret0)]
  IN /\ Len(users) < MaxUsers
     /\ users' = Append(users, user)
     /\ nextId' = nextId + 1
     /\ resp' = [status |-> answer, data |-> user]
     /\ UNCHANGED <<posts, now, emitted, audit, tasks>>

\* POST /api/auth/create-admin  createAdmin; createThrows: User.create throws
\* (a validator of the user schema, a duplicate key)
createAdmin(token, createThrows) ==
  /\ Ready
  /\ req' = [op |-> "createAdmin", token |-> token]
  /\ LET userCount == Len(users)
         adminExists == \E i \in 1..Len(users) : users[i].role = "admin"
     IN IF userCount > 0 /\ adminExists THEN RejectUsers(400)
        ELSE IF createThrows THEN RejectUsers(400)
        ELSE CreateUser("admin", TRUE, 201)

\* POST /api/auth/register  register
register(token, createThrows) ==
  /\ Ready
  /\ req' = [op |-> "register", token |-> token]
  /\ IF createThrows THEN RejectUsers(400)
     ELSE CreateUser("user", TRUE, 201)

\* bodies of registerUser: role and isActive are optional
RegisterBodies == {<<>>, [role |-> "admin"], [role |-> "user", isActive |-> FALSE]}

\* registerUser behind protect
registerUser(token, body, createThrows) ==
  /\ Ready
  /\ req' = [op |-> "registerUser", token |-> token, body |-> body]
  /\ LET caller == protect(token) IN
     IF caller = 0 THEN RejectUsers(401)
     ELSE IF ~authorize(caller, "admin") THEN RejectUsers(403)
     ELSE LET role == IF Has(body, "role") THEN body.role ELSE "user"
              isActive == IF Has(body, "isActive") THEN body.isActive ELSE TRUE
          IN IF createThrows THEN RejectUsers(500)
             ELSE CreateUser(role, isActive, 201)

\* bodies of updateUser
UpdateBodies ==
  {<<>>, [isActive |-> FALSE], [isActive |-> TRUE], [role |-> "admin", isActive |-> FALSE]}

\* PUT /api/users/:id  protect, authorize('admin'), updateUser
updateUser(token, id, body) ==
  /\ Ready
  /\ req' = [op |-> "updateUser", token |-> token, id |-> id, body |-> body]
  /\ LET caller == protect(token)
         i == findById(users, id)
     IN IF caller = 0 THEN RejectUsers(401)
        ELSE IF ~authorize(caller, "admin") THEN RejectUsers(403)
        ELSE IF Has(body, "role") /\ body.role = "admin" THEN RejectUsers(400)
        ELSE IF i = 0 THEN RejectUsers(404)
        ELSE LET user == IF Has(body, "isActive")
                         THEN [users[i] EXCEPT !.isActive = body.isActive]
                         ELSE users[i]
             IN /\ users' = [users EXCEPT ![i] = user]
                /\ resp' = [status |-> 200, data |-> user]
                /\ UNCHANGED <<posts, now, nextId, emitted, audit, tasks>>

\* PATCH /api/users/:id/toggle-status  protect, authorize('admin'),
\* toggleUserStatus
toggleUserStatus(token, id) ==
  /\ Ready
  /\ req' = [op |-> "toggleUserStatus", token |-> token, id |-> id]
  /\ LET caller == protect(token)
         i == findById(users, id)
     IN IF caller = 0 THEN RejectUsers(401)
        ELSE IF ~authorize(caller, "admin") THEN RejectUsers(403)
        ELSE IF i = 0 THEN RejectUsers(404)
        ELSE IF users[i].role = "admin" THEN RejectUsers(400)
        ELSE LET user == [users[i] EXCEPT !.isActive = ~users[i].isActive]
             IN /\ users' = [users EXCEPT ![i] = user]
                /\ resp' = [status |-> 200, data |-> user]
                /\ UNCHANGED <<posts, now, nextId, emitted, audit, tasks>>

\* DELETE /api/users/:id  protect, authorize('admin'), deleteUser;
\* removeThrows: user.remove() throws (the database fails, or the installed
\* mongoose has no Document.remove)
deleteUser(token, id, removeThrows) ==
  /\ Ready
  /\ req' = [op |-> "deleteUser", token |-> token, id |-> id]
  /\ LET caller == protect(token)
         i == findById(users, id)
     IN IF caller = 0 THEN RejectUsers(401)
        ELSE IF ~authorize(caller, "admin") THEN RejectUsers(403)
        ELSE IF i = 0 THEN RejectUsers(404)
        ELSE IF users[i].role = "admin" THEN RejectUsers(400)
        ELSE IF removeThrows THEN RejectUsers(500)
        ELSE /\ users' = RemoveAt(users, i)
             /\ resp' = [status |-> 200]
             /\ UNCHANGED <<posts, now, nextId, emitted, audit, tasks>>

\* !newPassword || newPassword.length < 6
NewPasswordRefused(body) ==
  ~Has(body, "newPassword") \/ Len(body.newPassword) < PasswordMin

\* bodies of resetUserPassword and changeUserPassword
PasswordBodies ==
  {<<>>,
   [newPassword |-> Secret1],
   [newPassword |-> TooShort],
   [currentPassword |-> Secret0, newPassword |-> Secret1],
   [currentPassword |-> Secret1, newPassword |-> Secret0],
   [currentPassword |-> Secret0, newPassword |-> TooShort],
   [currentPassword |-> Secret0]}

\* PATCH /api/users/:id/reset-password  protect, authorize('admin'),
\* resetUserPassword
resetUserPassword(token, id, body) ==
  /\ Ready
  /\ req' = [op |-> "resetUserPassword", token |-> token, id |-> id, body |-> body]
  /\ LET caller == protect(token)
         i == findById(users, id)
     IN IF caller = 0 THEN RejectUsers(401)
        ELSE IF ~authorize(caller, "admin") THEN RejectUsers(403)
        ELSE IF NewPasswordRefused(body) THEN RejectUsers(400)
        ELSE IF i = 0 THEN RejectUsers(404)
        ELSE IF users[i].role = "admin" THEN RejectUsers(400)
        ELSE /\ users' = [users EXCEPT ![i].password = Hash(body.newPassword)]
             /\ resp' = [status |-> 200]
             /\ UNCHANGED <<posts, now, nextId, emitted, audit, tasks>>

\* checkPasswordChangeAuthorization that lets every caller through
AnyoneMayChange(caller, id) == TRUE

\* checkPasswordChangeAuthorization: an admin, or the account of :id itself
checkPasswordChangeAuthorization(caller, id) ==
  users[caller].role = "admin" \/ users[caller]._id = id

\* PATCH /api/users/:id/change-password  protect,
\* checkPasswordChangeAuthorization, changeUserPassword; matchThrows:
\* user.matchPassword throws (findById loads the account without the field
\* password when the schema hides it, and there is no hash to compare with)
changeUserPassword(token, id, body, matchThrows) ==
  /\ Ready
  /\ req' = [op |-> "changeUserPassword", token |-> token, id |-> id, body |-> body]
  /\ LET caller == protect(token)
         i == findById(users, id)
     IN IF caller = 0 THEN RejectUsers(401)
        ELSE IF ~checkPasswordChangeAuthorization(caller, id) THEN RejectUsers(403)
        ELSE IF i = 0 THEN RejectUsers(404)
        ELSE IF users[caller].role /= "admin" /\ matchThrows THEN RejectUsers(500)
        ELSE IF /\ users[caller].role /= "admin"
                /\ ~(Has(body, "currentPassword") /\ matchPassword(users[i], body.currentPassword))
             THEN RejectUsers(400)
        ELSE IF NewPasswordRefused(body) THEN RejectUsers(400)
        ELSE /\ users' = [users EXCEPT ![i].password = Hash(body.newPassword)]
             /\ resp' = [status |-> 200]
             /\ UNCHANGED <<posts, now, nextId, emitted, audit, tasks>>

\* POST /send and POST /send/request: no middleware before the handler
send(token, route) ==
  /\ Ready
  /\ req' = [op |-> route, token |-> token]
  /\ emitted' = emitted + 1
  /\ resp' = [status |-> 200]
  /\ UNCHANGED <<posts, now, nextId, users, audit, tasks>>

SendRoutes == {"send", "send/request"}

\* the routes of the routers that start with router.use(protect), and the
\* routes of the auth router that name protect
GuardedRoutes ==
  {"getSinglePassport", "updateSinglePassport", "deleteSinglePassport",
   "deleteMultiplePassports", "getPassportsByCountry", "getPassportPost",
   "updatePassportPost", "deletePassportPost", "getPassportPosts",
   "createPassportPost", "getMe", "logout"}

\* a request on a guarded route that protect refuses: the handler is not run
protectRefuses(token, route) ==
  /\ Ready
  /\ protect(token) = 0
  /\ req' = [op |-> route, token |-> token]
  /\ RejectUsers(401)

NextUsers ==
  \/ \E token \in Tokens, createThrows \in BOOLEAN : createAdmin(token, createThrows)
  \/ \E token \in Tokens, createThrows \in BOOLEAN : register(token, createThrows)
  \/ \E token \in Tokens, body \in RegisterBodies, createThrows \in BOOLEAN :
       registerUser(token, body, createThrows)
  \/ \E token \in Tokens, id \in 1..MaxUsers, body \in UpdateBodies :
       updateUser(token, id, body)
  \/ \E token \in Tokens, id \in 1..MaxUsers : toggleUserStatus(token, id)
  \/ \E token \in Tokens, id \in 1..MaxUsers, removeThrows \in BOOLEAN :
       deleteUser(token, id, removeThrows)
  \/ \E token \in Tokens, id \in 1..MaxUsers, body \in PasswordBodies :
       resetUserPassword(token, id, body)
  \/ \E token \in Tokens, id \in 1..MaxUsers, body \in PasswordBodies,
        matchThrows \in BOOLEAN :
       changeUserPassword(token, id, body, matchThrows)
  \/ \E token \in Tokens, route \in SendRoutes : send(token, route)
  \/ \E token \in Tokens, route \in GuardedRoutes : protectRefuses(token, route)
  \/ Finish

SpecUsers == InitUsers /\ [][NextUsers]_vars

\* ---------------------------------------------------------------------------
\* Requests that overlap. A handler runs up to its next `await` on the
\* database without interruption; between its read of the collection and its
\* write, the reads and writes of the other requests take place.
\* ---------------------------------------------------------------------------

\* the requests in flight at the same time
NumTasks == 2

Tasks == 1..NumTasks

StoredEntry(id, pn) ==
  Spread(RequiredFields(pn), [_id |-> id, postDate |-> IstOffsetMs])

\* the collection when the requests arrive: a post of alice with two entries
\* and a post of root with one, as createPassportPost stored them; __v is the
\* version key mongoose keeps on every document
StoreAtStart ==
  <<[_id |-> 1, passports |-> <<StoredEntry(2, PN1), StoredEntry(3, PN2)>>,
     createdBy |-> "alice", updatedBy |-> NoUser, __v |-> 0],
    [_id |-> 4, passports |-> <<StoredEntry(5, PN1)>>,
     createdBy |-> "root", updatedBy |-> NoUser, __v |-> 0]>>

\* the next ObjectId after those of StoreAtStart
FirstFreeId == 6

NoTask == [pc |-> "idle", op |-> "none"]

InitSteps ==
  /\ posts = StoreAtStart
  /\ now = 0
  /\ nextId = FirstFreeId
  /\ req = NoReq
  /\ resp = NoResp
  /\ users = <<Account("alice"), Account("root")>>
  /\ emitted = 0
  /\ audit = <<>>
  /\ tasks = [t \in Tasks |-> NoTask]

\* the request has been answered
Done(local, status) == Spread(local, [pc |-> "done", status |-> status])

\* the request waits for its write
Fetched(local, found) == Spread(Spread(local, found), [pc |-> "fetched"])

\* updateSinglePassport from PassportPost.find() to the call of post.save()
fetchUpdateSinglePassport(t, user, passportId, body) ==
  /\ tasks[t].pc = "idle"
  /\ LET local == [op |-> "updateSinglePassport", user |-> user,
                   id |-> passportId, body |-> body]
         i == Locate(posts, passportId)
     IN IF i = 0 THEN tasks' = [tasks EXCEPT ![t] = Done(local, 404)]
        ELSE
          LET post == posts[i]
              passportIndex == findIndex(post.passports, passportId)
              originalPassport == post.passports[passportIndex]
              updatedPassport ==
                Spread(Spread([_id |-> originalPassport._id], body),
                       [postDate |-> originalPassport.postDate])
              doc == CastPassport(updatedPassport, nextId)
          IN IF ~IsOwnerOrAdmin(post, user)
             THEN tasks' = [tasks EXCEPT ![t] = Done(local, 403)]
             ELSE tasks' = [tasks EXCEPT ![t] =
                              Fetched(local, [post |-> post,
                                              passportIndex |-> passportIndex,
                                              doc |-> doc])]
  /\ UNCHANGED <<posts, now, nextId, req, resp, users, emitted, audit>>

\* deleteSinglePassport from PassportPost.find() to the call of
\* post.deleteOne() or post.save(): the audit record is written in between
fetchDeleteSinglePassport(t, user, passportId) ==
  /\ tasks[t].pc = "idle"
  /\ LET local == [op |-> "deleteSinglePassport", user |-> user, id |-> passportId]
         i == Locate(posts, passportId)
     IN IF i = 0
        THEN /\ tasks' = [tasks EXCEPT ![t] = Done(local, 404)]
             /\ audit' = audit
        ELSE
          LET post == posts[i]
              passportIndex == findIndex(post.passports, passportId)
          IN /\ audit' = logDeletedPassport(audit, post.passports[passportIndex],
                                            user, FALSE)
             /\ tasks' = [tasks EXCEPT ![t] =
                            Fetched(local, [post |-> post,
                                            passportIndex |-> passportIndex])]
  /\ UNCHANGED <<posts, now, nextId, req, resp, users, emitted>>

\* updatePassportPost, behind validatePassportEntries, from
\* PassportPost.findById to the call of originalPost.save()
fetchUpdatePassportPost(t, user, id, body) ==
  /\ tasks[t].pc = "idle"
  /\ LET local == [op |-> "updatePassportPost", user |-> user, id |-> id, body |-> body]
         i == findById(posts, id)
     IN IF ~validatePassportEntries(body)
        THEN tasks' = [tasks EXCEPT ![t] = Done(local, 400)] /\ nextId' = nextId
        ELSE IF i = 0
        THEN tasks' = [tasks EXCEPT ![t] = Done(local, 404)] /\ nextId' = nextId
        ELSE IF ~IsOwnerOrAdmin(posts[i], user)
        THEN tasks' = [tasks EXCEPT ![t] = Done(local, 403)] /\ nextId' = nextId
        ELSE IF ~IsNonEmptyArray(body)
        THEN tasks' = [tasks EXCEPT ![t] = Done(local, 400)] /\ nextId' = nextId
        ELSE
          LET existingPassportsMap == ExistingPassportsMap(posts[i].passports)
              currentIST == getCurrentIST
              processedPassports ==
                [j \in 1..Len(body.passports) |->
                   ProcessPassport(body.passports[j], existingPassportsMap, currentIST)]
              docs == CastPassports(processedPassports, nextId)
          IN /\ nextId + NumGenerated(processedPassports) <= MaxId + 1
             /\ nextId' = nextId + NumGenerated(processedPassports)
             /\ tasks' = [tasks EXCEPT ![t] =
                            Fetched(local, [post |-> posts[i], docs |-> docs])]
  /\ UNCHANGED <<posts, now, req, resp, users, emitted, audit>>

\* document.save() of a document fetched at version __v is refused
\* (VersionError, DocumentNotFoundError) when the stored document is gone or
\* has another version: the update carries the version in its filter
SaveRefused(fetched) ==
  LET i == findById(posts, fetched._id)
  IN i = 0 \/ posts[i].__v /= fetched.__v

\* SpliceSave that takes the entry out of the stored list
SpliceSaveOnStored(stored, fetched, passportIndex, user) ==
  [stored EXCEPT !.passports = RemoveAt(stored.passports, passportIndex),
                 !.updatedBy = user,
                 !.__v = @ + 1]

\* post.passports.splice(passportIndex, 1); post.updatedBy = req.user.id;
\* post.save(): the list of the fetched document, without the entry, replaces
\* the stored list, and the version goes up
SpliceSave(stored, fetched, passportIndex, user) ==
  [stored EXCEPT !.passports = RemoveAt(fetched.passports, passportIndex),
                 !.updatedBy = user,
                 !.__v = @ + 1]

\* originalPost.passports = processedPassports; originalPost.updatedBy =
\* req.user.id; originalPost.save()
ListSave(stored, docs, user) ==
  [stored EXCEPT !.passports = docs, !.updatedBy = user, !.__v = @ + 1]

\* await post.save() of updateSinglePassport: the entry at passportIndex and
\* updatedBy are set in the stored document; the version stays
saveUpdateSinglePassport(t) ==
  /\ tasks[t].pc = "fetched"
  /\ tasks[t].op = "updateSinglePassport"
  /\ LET local == tasks[t]
         i == findById(posts, local.post._id)
     IN IF ~PassportIsValid(local.doc) \/ SaveRefused(local.post)
        THEN /\ posts' = posts
             /\ tasks' = [tasks EXCEPT ![t] = Done(local, 500)]
        ELSE /\ posts' = [posts EXCEPT ![i] =
                            ReplacePassport(posts[i], local.passportIndex,
                                            local.doc, local.user)]
             /\ tasks' = [tasks EXCEPT ![t] = [local EXCEPT !.pc = "saved"]]
  /\ UNCHANGED <<now, nextId, req, resp, users, emitted, audit>>

\* await post.deleteOne() or await post.save() of deleteSinglePassport, and
\* the response
saveDeleteSinglePassport(t) ==
  /\ tasks[t].pc = "fetched"
  /\ tasks[t].op = "deleteSinglePassport"
  /\ LET local == tasks[t]
         i == findById(posts, local.post._id)
     IN IF Len(local.post.passports) = 1
        THEN /\ posts' = IF i = 0 THEN posts ELSE RemoveAt(posts, i)
             /\ tasks' = [tasks EXCEPT ![t] = Done(local, 200)]
        ELSE IF SaveRefused(local.post)
        THEN /\ posts' = posts
             /\ tasks' = [tasks EXCEPT ![t] = Done(local, 500)]
        ELSE /\ posts' = [posts EXCEPT ![i] =
                            SpliceSave(posts[i], local.post,
                                       local.passportIndex, local.user)]
             /\ tasks' = [tasks EXCEPT ![t] = Done(local, 200)]
  /\ UNCHANGED <<now, nextId, req, resp, users, emitted, audit>>

\* await originalPost.save() of updatePassportPost
saveUpdatePassportPost(t) ==
  /\ tasks[t].pc = "fetched"
  /\ tasks[t].op = "updatePassportPost"
  /\ LET local == tasks[t]
         i == findById(posts, local.post._id)
     IN IF ~AllValid(local.docs) \/ SaveRefused(local.post)
        THEN /\ posts' = posts
             /\ tasks' = [tasks EXCEPT ![t] = Done(local, 500)]
        ELSE /\ posts' = [posts EXCEPT ![i] =
                            ListSave(posts[i], local.docs, local.user)]
             /\ tasks' = [tasks EXCEPT ![t] = [local EXCEPT !.pc = "saved"]]
  /\ UNCHANGED <<now, nextId, req, resp, users, emitted, audit>>

\* PassportPost.findById after the save of an update, and the response: a
\* post that is gone, or a list too short for passportIndex, makes the
\* handler throw, and the catch answers 500
refetch(t) ==
  /\ tasks[t].pc = "saved"
  /\ LET local == tasks[t]
         i == findById(posts, local.post._id)
         thrown == \/ i = 0
                   \/ /\ local.op = "updateSinglePassport"
                      /\ local.passportIndex > Len(posts[i].passports)
     IN tasks' = [tasks EXCEPT ![t] = Done(local, IF thrown THEN 500 ELSE 200)]
  /\ UNCHANGED <<posts, now, nextId, req, resp, users, emitted, audit>>

\* the identifiers in the paths of the overlapping requests
StepPassportIds == {2, 3, 5, ForeignId}

\* the post of two entries, and a post that does not exist
StepPostIds == {1, ForeignId}

\* the bodies of the overlapping updates of one entry
StepPassportBodies == {Spread(RequiredFields(PN2), [city |-> Pune]), [city |-> Pune]}

\* the bodies of the overlapping updates of a post
StepPostBodies ==
  {[passports |-> <<WithId(Spread(RequiredFields(PN1), [city |-> Pune]), 2)>>],
   [passports |-> <<EntryA>>]}

NextSteps ==
  \/ \E t \in Tasks, user \in Users, id \in StepPassportIds, body \in StepPassportBodies :
       fetchUpdateSinglePassport(t, user, id, body)
  \/ \E t \in Tasks, user \in Users, id \in StepPassportIds :
       fetchDeleteSinglePassport(t, user, id)
  \/ \E t \in Tasks, user \in Users, id \in StepPostIds, body \in StepPostBodies :
       fetchUpdatePassportPost(t, user, id, body)
  \/ \E t \in Tasks : saveUpdateSinglePassport(t)
  \/ \E t \in Tasks : saveDeleteSinglePassport(t)
  \/ \E t \in Tasks : saveUpdatePassportPost(t)
  \/ \E t \in Tasks : refetch(t)

SpecSteps == InitSteps /\ [][NextSteps]_vars

\* ---------------------------------------------------------------------------
\* Requests on the auth router that overlap: createAdmin awaits the database
\* three times (countDocuments, findOne, create), and the other requests run
\* between its awaits.
\* ---------------------------------------------------------------------------

InitAdminRace ==
  /\ posts = <<>>
  /\ now = 0
  /\ nextId = 1
  /\ req = NoReq
  /\ resp = NoResp
  /\ users = <<>>
  /\ emitted = 0
  /\ audit = <<>>
  /\ tasks = [t \in Tasks |-> NoTask]

\* await User.countDocuments(): with no user stored the handler goes straight
\* to User.create
countDocuments(t) ==
  /\ tasks[t].pc = "idle"
  /\ tasks' = [tasks EXCEPT ![t] =
                 [op |-> "createAdmin",
                  pc |-> IF Len(users) > 0 THEN "counted" ELSE "checked"]]
  /\ UNCHANGED <<posts, now, nextId, req, resp, users, emitted, audit>>

\* await User.findOne({ role: 'admin' }): 400 when an admin is stored
findOneAdmin(t) ==
  /\ tasks[t].pc = "counted"
  /\ LET adminExists == \E i \in 1..Len(users) : users[i].role = "admin"
     IN tasks' = [tasks EXCEPT ![t] =
                    IF adminExists THEN Done(tasks[t], 400)
                    ELSE [tasks[t] EXCEPT !.pc = "checked"]]
  /\ UNCHANGED <<posts, now, nextId, req, resp, users, emitted, audit>>

\* await User.create(...) of a task, and the response; createThrows:
\* User.create throws (a validator of the user schema, a duplicate key)
createAccount(t, role, createThrows) ==
  IF createThrows
  THEN /\ tasks' = [tasks EXCEPT ![t] = Done(tasks[t], 400)]
       /\ UNCHANGED <<users, nextId>>
  ELSE /\ Len(users) < MaxUsers
       /\ users' = Append(users, [_id |-> nextId, role |-> role, isActive |-> TRUE,
                                  password |-> Hash(Secret0)])
       /\ nextId' = nextId + 1
       /\ tasks' = [tasks EXCEPT ![t] = Done(tasks[t], 201)]

\* await User.create({..., role: 'admin'}) of createAdmin
createTheAdmin(t, createThrows) ==
  /\ tasks[t].pc = "checked"
  /\ createAccount(t, "admin", createThrows)
  /\ UNCHANGED <<posts, now, req, resp, emitted, audit>>

\* register: one await, User.create({..., role: 'user'})
registerStep(t, createThrows) ==
  /\ tasks[t].pc = "idle"
  /\ createAccount(t, "user", createThrows)
  /\ UNCHANGED <<posts, now, req, resp, emitted, audit>>

\* the response is sent; the next request is served
nextRequest(t) ==
  /\ tasks[t].pc = "done"
  /\ tasks' = [tasks EXCEPT ![t] = NoTask]
  /\ UNCHANGED <<posts, now, nextId, req, resp, users, emitted, audit>>

NextAdminRace ==
  \/ \E t \in Tasks : countDocuments(t)
  \/ \E t \in Tasks : findOneAdmin(t)
  \/ \E t \in Tasks, createThrows \in BOOLEAN : createTheAdmin(t, createThrows)
  \/ \E t \in Tasks, createThrows \in BOOLEAN : registerStep(t, createThrows)
  \/ \E t \in Tasks : nextRequest(t)

SpecAdminRace == InitAdminRace /\ [][NextAdminRace]_vars


\* ---- properties ---------------------------------------------------------
\* the positions <<post, entry>> of the store
Entries(all) ==
  UNION {{<<i, j>> : j \in 1..Len(all[i].passports)} : i \in 1..Len(all)}

IdsOf(list) == {list[j]._id : j \in 1..Len(list)}

Range(list) == {list[k] : k \in 1..Len(list)}

Answered(op, status) == req.op = op /\ resp.status = status

\* the step that answers a request of this operation with this status
Answers(op, status) == req'.op = op /\ resp'.status = status

\* a caller who is neither the owner of the post nor an admin
Stranger(post, user) == post.createdBy /= user /\ Role(user) /= "admin"

\* C1: every post in the store has at least one entry in its passports list.
C1_PostsAreNeverEmpty ==
  \A i \in 1..Len(posts) : Len(posts[i].passports) >= 1

\* C1 witness: deleteSinglePassport removed the last entry of a post, the post
\* is gone and another post is still stored.
C1_Witness ==
  /\ Answered("deleteSinglePassport", 200)
  /\ findById(posts, resp.data.postId) = 0
  /\ posts /= <<>>

\* C2: a successful deleteSinglePassport(e) removes every post whose only
\* entry is e and answers with e's identifier and that post's identifier.
C2_DeleteOfOnlyEntryRemovesPost ==
  [][Answers("deleteSinglePassport", 200) =>
       \A k \in 1..Len(posts) :
         (Len(posts[k].passports) = 1 /\ posts[k].passports[1]._id = req'.id) =>
           /\ findById(posts', posts[k]._id) = 0
           /\ resp'.data.deletedPassport = req'.id
           /\ resp'.data.postId = posts[k]._id]_vars

\* C3: a successful deleteSinglePassport(e) on a post of two or more entries
\* that holds e leaves that post stored with its list less e, the other
\* entries as they were and in their order, and changes no other post.
C3_DeleteKeepsTheOtherEntries ==
  [][Answers("deleteSinglePassport", 200) =>
       \A k \in 1..Len(posts) :
         (Len(posts[k].passports) >= 2 /\ req'.id \in IdsOf(posts[k].passports)) =>
           /\ Len(posts') = Len(posts)
           /\ \E j \in 1..Len(posts[k].passports) :
                /\ posts[k].passports[j]._id = req'.id
                /\ posts' = [posts EXCEPT ![k] =
                               [@ EXCEPT !.passports = RemoveAt(@, j),
                                         !.updatedBy = posts'[k].updatedBy]]]_vars

IsNewEntry(passport, list) == ~Has(passport, "_id") \/ passport._id \notin IdsOf(list)

\* C5 as claimed: an entry created by createPassportPost, and a new entry
\* added by updatePassportPost, is stored with postDate equal to the time at
\* which the request is handled, whatever postDate the payload carries.
C5_NewEntryDatedNow ==
  [][/\ Answers("createPassportPost", 201) =>
          \A j \in 1..Len(resp'.data.passports) : resp'.data.passports[j].postDate = now
     /\ Answers("updatePassportPost", 200) =>
          \A j \in 1..Len(req'.body.passports) :
            IsNewEntry(req'.body.passports[j], posts[findById(posts, req'.id)].passports) =>
              resp'.data.passports[j].postDate = now]_vars

\* C5 as amended: such an entry is stored with postDate equal to the time at
\* which the request is handled plus 5 h 30 min (getCurrentIST), whatever
\* postDate the payload carries.
C5_NewEntryDatedIST ==
  [][/\ Answers("createPassportPost", 201) =>
          /\ Len(posts') = Len(posts) + 1
          /\ posts'[Len(posts')] = resp'.data
          /\ Len(resp'.data.passports) = Len(req'.body.passports)
          /\ \A j \in 1..Len(resp'.data.passports) :
               resp'.data.passports[j].postDate = now + IstOffsetMs
     /\ Answers("updatePassportPost", 200) =>
          /\ posts'[findById(posts, req'.id)] = resp'.data
          /\ \A j \in 1..Len(req'.body.passports) :
               IsNewEntry(req'.body.passports[j], posts[findById(posts, req'.id)].passports) =>
                 resp'.data.passports[j].postDate = now + IstOffsetMs]_vars

\* C5 witness: updatePassportPost stored a supplied entry that has no _id and
\* carries a postDate of the caller's, dated by the server.
C5_Witness ==
  /\ Answered("updatePassportPost", 200)
  /\ \E j \in 1..Len(req.body.passports) :
       /\ ~Has(req.body.passports[j], "_id")
       /\ Has(req.body.passports[j], "postDate")
       /\ req.body.passports[j].postDate /= now + IstOffsetMs
       /\ resp.data.passports[j].postDate = now + IstOffsetMs

\* C6: no entry identifier occurs twice in the store, neither in one post nor
\* in two posts.
C6_EntryIdsAreUnique ==
  \A x \in Entries(posts), y \in Entries(posts) :
    posts[x[1]].passports[x[2]]._id = posts[y[1]].passports[y[2]]._id => x = y

DataPaths == {"passportNumber", "link", "city", "issuedCountry"}

\* the value the schema stores for a field of a payload
Stored(path, value) == IF path \in TrimmedPaths THEN Trim(value) ELSE value

\* C7: a successful updateSinglePassport on entry e with payload B stores, in
\* e's place, an entry with e's identifier and e's postDate whose other fields
\* are those of B, a field B does not carry being cleared.
C7_SingleUpdateReplacesFields ==
  [][Answers("updateSinglePassport", 200) =>
       LET i == Locate(posts, req'.id)
           j == findIndex(posts[i].passports, req'.id)
           e == posts[i].passports[j]
           after == posts'[i].passports[j]
           B == req'.body
       IN /\ after._id = e._id
          /\ after.postDate = e.postDate
          /\ \A path \in DataPaths :
               IF Has(B, path) THEN Has(after, path) /\ after[path] = Stored(path, B[path])
               ELSE ~Has(after, path)]_vars

\* C8: a successful updatePassportPost on post P with list L replaces P's list:
\* the stored list has the length and the order of L, a supplied entry whose
\* identifier matches an entry of P keeps it, an entry of P whose identifier is
\* not in L is no longer in P, and P's updatedBy is the caller.
C8_PostUpdateReplacesList ==
  [][Answers("updatePassportPost", 200) =>
       LET i == findById(posts, req'.id)
           before == posts[i].passports
           after == posts'[i].passports
           L == req'.body.passports
           suppliedIds == {L[j]._id : j \in {m \in 1..Len(L) : Has(L[m], "_id")}}
       IN /\ Len(posts') = Len(posts)
          /\ posts'[i]._id = req'.id
          /\ Len(after) = Len(L)
          /\ \A j \in 1..Len(L) :
               /\ \A path \in DataPaths \cap DOMAIN L[j] :
                    after[j][path] = Stored(path, L[j][path])
               /\ (Has(L[j], "_id") /\ L[j]._id \in IdsOf(before)) => after[j]._id = L[j]._id
          /\ \A id \in IdsOf(before) \ suppliedIds : id \notin IdsOf(after)
          /\ posts'[i].updatedBy = req'.user]_vars

\* C8 witness: an update of two supplied entries was answered, the first one
\* matched an entry of the post (it kept an older postDate) and the second one
\* is new.
C8_Witness ==
  /\ Answered("updatePassportPost", 200)
  /\ Len(req.body.passports) = 2
  /\ Has(req.body.passports[1], "_id")
  /\ resp.data.passports[1]._id = req.body.passports[1]._id
  /\ resp.data.passports[1].postDate < getCurrentIST
  /\ resp.data.passports[2].postDate = getCurrentIST
  /\ resp.data.updatedBy = req.user

\* the post an update request is aimed at, 0 when there is none
TargetOfUpdate(all, r) ==
  IF r.op = "updatePassportPost" THEN findById(all, r.id)
  ELSE IF r.op = "updateSinglePassport" THEN Locate(all, r.id)
  ELSE 0

\* C9 as claimed: an update by a caller who is neither the owner of the target
\* post nor an admin is answered 403 and leaves the store unchanged.
C9_StrangerUpdateIs403 ==
  [][(TargetOfUpdate(posts, req') /= 0
        /\ Stranger(posts[TargetOfUpdate(posts, req')], req'.user)) =>
       (resp'.status = 403 /\ posts' = posts)]_vars

\* C9 as amended: such an update leaves the store unchanged; it is answered 403,
\* except that updatePassportPost with a payload that validatePassportEntries
\* refuses is answered 400 by the validator, which runs before the handler.
C9_StrangerUpdateIsRejected ==
  [][(TargetOfUpdate(posts, req') /= 0
        /\ Stranger(posts[TargetOfUpdate(posts, req')], req'.user)) =>
       /\ posts' = posts
       /\ resp'.status =
            IF req'.op = "updatePassportPost" /\ ~validatePassportEntries(req'.body)
            THEN 400 ELSE 403]_vars

\* C9 witness: a caller who is not an admin was refused the update of a post
\* that is stored and is not theirs.
C9_Witness ==
  /\ Answered("updatePassportPost", 403)
  /\ Role(req.user) /= "admin"
  /\ findById(posts, req.id) /= 0
  /\ posts[findById(posts, req.id)].createdBy /= req.user
  /\ validatePassportEntries(req.body)

DeleteOps == {"deletePassportPost", "deleteSinglePassport", "deleteMultiplePassports"}

\* C10: a delete request of a caller who is not an admin removes nothing from
\* the posts of other users: each of them is stored unchanged afterwards.
C10_StrangerDeletesNothing ==
  [][(req'.op \in DeleteOps /\ Role(req'.user) /= "admin") =>
       \A k \in 1..Len(posts) :
         posts[k].createdBy /= req'.user =>
           \E m \in 1..Len(posts') : posts'[m] = posts[k]]_vars

\* the posts whose list holds the identifier
Holders(all, id) == {k \in 1..Len(all) : id \in IdsOf(all[k].passports)}

\* C11: getPassportPost and getSinglePassport return the post or the entry to
\* the owner of the containing post and to an admin only; a caller who is
\* neither is answered 403 with no content; getPassportPosts returns every post
\* to any caller.
C11_ReadsAreForOwnerOrAdmin ==
  [][/\ (req'.op = "getPassportPost" /\ findById(posts, req'.id) /= 0) =>
          LET post == posts[findById(posts, req'.id)]
          IN IF Stranger(post, req'.user) THEN resp' = [status |-> 403]
             ELSE resp' = [status |-> 200, data |-> post]
     /\ (req'.op = "getSinglePassport" /\ resp'.status = 200) =>
          \E k \in Holders(posts, req'.id) :
            /\ ~Stranger(posts[k], req'.user)
            /\ resp'.data.postId = posts[k]._id
            /\ resp'.data.passport._id = req'.id
            /\ \E j \in 1..Len(posts[k].passports) :
                 resp'.data.passport = posts[k].passports[j]
     /\ (req'.op = "getSinglePassport" /\ Holders(posts, req'.id) /= {}
           /\ \A k \in Holders(posts, req'.id) : Stranger(posts[k], req'.user)) =>
          resp' = [status |-> 403]
     /\ (req'.op = "getSinglePassport" /\ Holders(posts, req'.id) /= {}
           /\ \A k \in Holders(posts, req'.id) : ~Stranger(posts[k], req'.user)) =>
          resp'.status = 200
     /\ req'.op = "getPassportPosts" =>
          /\ resp'.status = 200
          /\ resp'.count = Len(posts)
          /\ Len(resp'.data) = Len(posts)
          /\ \A k \in 1..Len(posts) : \E m \in 1..Len(resp'.data) : resp'.data[m] = posts[k]
     /\ req'.op \in {"getPassportPosts", "getPassportPost", "getSinglePassport"} =>
          posts' = posts]_vars

\* C11 witness: a caller who is not an admin asked for an entry that is stored
\* in a post of another user and was refused.
C11_Witness ==
  /\ Answered("getSinglePassport", 403)
  /\ Role(req.user) /= "admin"
  /\ Holders(posts, req.id) /= {}
  /\ \A k \in Holders(posts, req.id) : posts[k].createdBy /= req.user

\* how often a value occurs in a list
Count(list, x) == Cardinality({k \in 1..Len(list) : list[k] = x})

\* how many entries of the store carry the identifier
Occurrences(all, id) ==
  Cardinality({e \in Entries(all) : all[e[1]].passports[e[2]]._id = id})

\* the errors of a response of deleteMultiplePassports, left out when empty
ErrorsOf(r) == IF Has(r, "errors") THEN r.errors ELSE <<>>

ErrorIds(r) == [k \in 1..Len(ErrorsOf(r)) |-> ErrorsOf(r)[k].id]

\* C12: deleteMultiplePassports processes every identifier of the list: an
\* identifier that is in no post yields an error entry each time it is listed,
\* the count is the number of entries removed from the store and the deleted
\* list holds exactly the identifiers of the removed entries.
C12_BatchCountsWhatItRemoved ==
  [][Answers("deleteMultiplePassports", 200) =>
       LET ids == req'.body.passportIds IN
       /\ \A id \in Range(ids) :
            id \notin StoredIds(posts) => Count(ErrorIds(resp'), id) = Count(ids, id)
       /\ resp'.count = Cardinality(Entries(posts)) - Cardinality(Entries(posts'))
       /\ resp'.count = Len(resp'.deleted)
       /\ \A id \in Range(ids) \cup Range(resp'.deleted) :
            Count(resp'.deleted, id) = Occurrences(posts, id) - Occurrences(posts', id)]_vars

\* C20: in the response of deleteMultiplePassports every submitted identifier
\* has one outcome for each time it is listed, in the deleted list or in the
\* errors and never in both, and an identifier is in the deleted list only if
\* an entry of that identifier was removed from the store.
C20_OneOutcomePerIdentifier ==
  [][Answers("deleteMultiplePassports", 200) =>
       LET ids == req'.body.passportIds IN
       /\ \A id \in Range(ids) \cup Range(resp'.deleted) \cup Range(ErrorIds(resp')) :
            Count(resp'.deleted, id) + Count(ErrorIds(resp'), id) = Count(ids, id)
       /\ \A id \in Range(resp'.deleted) :
            Occurrences(posts', id) < Occurrences(posts, id)]_vars

\* C13: at most one account holds the role admin.
C13_AtMostOneAdmin ==
  Cardinality({i \in 1..Len(users) : users[i].role = "admin"}) <= 1

\* the endpoints that ask for no credential
PublicOps == {"createAdmin", "register", "login"}

\* C14: a request on an endpoint other than create-admin, register and login
\* that carries no token or a token protect refuses is answered 401, changes
\* no stored state and triggers no side effect.
C14_NoCredentialNoEffect ==
  [][(req'.op \notin PublicOps \cup {"none"} /\ protect(req'.token) = 0) =>
       /\ resp' = [status |-> 401]
       /\ users' = users
       /\ posts' = posts
       /\ emitted' = emitted]_vars

Min(S) == CHOOSE x \in S : \A y \in S : x <= y

\* C15: a rejected operation leaves the store unchanged: create and
\* updatePassportPost with a passports payload that is empty or not a list are
\* answered 400, updatePassportPost on a post identifier that is not stored is
\* answered 404 (400 when the validator refuses the payload first),
\* updateSinglePassport and deleteSinglePassport on an entry identifier that is
\* in no post are answered 404, and in each case no post and no entry changes.
C15_RejectedLeavesStore ==
  [][/\ (req'.op \in {"createPassportPost", "updatePassportPost"}
           /\ ~(Has(req'.body, "passports") /\ Len(req'.body.passports) > 0)) =>
          (resp' = [status |-> 400] /\ posts' = posts)
     /\ (req'.op = "updatePassportPost" /\ \A k \in 1..Len(posts) : posts[k]._id /= req'.id) =>
          /\ resp' = [status |-> IF validatePassportEntries(req'.body) THEN 404 ELSE 400]
          /\ posts' = posts
     /\ (req'.op \in {"updateSinglePassport", "deleteSinglePassport"}
           /\ req'.id \notin StoredIds(posts)) =>
          (resp' = [status |-> 404] /\ posts' = posts)
     /\ (req'.op /= "none" /\ resp'.status >= 400) => posts' = posts]_vars

\* C15 witness: updatePassportPost with a valid payload on a post identifier
\* that is not stored was answered 404 while posts are stored.
C15_Witness ==
  /\ Answered("updatePassportPost", 404)
  /\ posts /= <<>>
  /\ findById(posts, req.id) = 0

\* C16: after createPassportPost stores a post, getSinglePassport by the owner
\* on the identifier of any of its entries returns an entry with the submitted
\* passportNumber, link and issuedCountry (as the schema stores them), the
\* postDate the server assigned and the identifier of the created post.
C16_CreateThenGetRoundTrip ==
  [][Answers("createPassportPost", 201) =>
       \A j \in 1..Len(req'.body.passports) :
         LET submitted == req'.body.passports[j]
             answer == SinglePassportAnswer(posts', req'.user, resp'.data.passports[j]._id)
         IN /\ answer.status = 200
            /\ \A path \in {"passportNumber", "link", "issuedCountry"} :
                 answer.data.passport[path] = Stored(path, submitted[path])
            /\ answer.data.passport.postDate = getCurrentIST
            /\ answer.data.postId = resp'.data._id]_vars

\* C17: in updatePassportPost a supplied entry whose identifier matches no
\* entry of the post is stored under a generated identifier: one that no entry
\* of the store had and that is not an identifier of the payload.
C17_NewEntryGetsFreshId ==
  [][Answers("updatePassportPost", 200) =>
       LET i == findById(posts, req'.id)
           L == req'.body.passports
           payloadIds == {L[m]._id : m \in {n \in 1..Len(L) : Has(L[n], "_id")}}
       IN \A j \in 1..Len(L) :
            IsNewEntry(L[j], posts[i].passports) =>
              /\ posts'[i].passports[j]._id \notin StoredIds(posts)
              /\ posts'[i].passports[j]._id \notin payloadIds]_vars

SingleOps == {"getSinglePassport", "updateSinglePassport", "deleteSinglePassport"}

\* C19: the entry lookup of getSinglePassport, updateSinglePassport and
\* deleteSinglePassport takes the first post, in storage order, whose list
\* holds the identifier, and the first entry of that identifier in its list;
\* the answer is 404 exactly when no post holds the identifier; the lookup
\* changes nothing in the store.
C19_LookupTakesFirstHolder ==
  [][req'.op \in SingleOps =>
       LET H == Holders(posts, req'.id) IN
       /\ (resp'.status = 404) <=> (H = {})
       /\ (H = {} \/ req'.op = "getSinglePassport") => posts' = posts
       /\ H /= {} =>
            LET i == Min(H)
                j == Min({m \in 1..Len(posts[i].passports) : posts[i].passports[m]._id = req'.id})
            IN /\ Stranger(posts[i], req'.user) /\ req'.op /= "deleteSinglePassport" =>
                    resp'.status = 403
               /\ (req'.op = "getSinglePassport" /\ resp'.status = 200) =>
                    /\ resp'.data.postId = posts[i]._id
                    /\ resp'.data.passport = posts[i].passports[j]
               /\ (req'.op = "updateSinglePassport" /\ resp'.status = 200) =>
                    /\ resp'.data.post._id = posts[i]._id
                    /\ resp'.data.updatedPassport = posts'[i].passports[j]
                    /\ \A k \in 1..Len(posts) : k /= i => posts'[k] = posts[k]
                    /\ \A m \in 1..Len(posts[i].passports) :
                         m /= j => posts'[i].passports[m] = posts[i].passports[m]
               /\ (req'.op = "deleteSinglePassport" /\ resp'.status = 200) =>
                    /\ resp'.data.postId = posts[i]._id
                    /\ IF Len(posts[i].passports) = 1 THEN posts' = RemoveAt(posts, i)
                       ELSE /\ Len(posts') = Len(posts)
                            /\ posts'[i].passports = RemoveAt(posts[i].passports, j)
                            /\ \A k \in 1..Len(posts) : k /= i => posts'[k] = posts[k]]_vars

\* C19 witness: getSinglePassport answered with an entry whose identifier is
\* held by two posts.
C19_Witness ==
  /\ Answered("getSinglePassport", 200)
  /\ Cardinality(Holders(posts, req.id)) = 2

\* the store after deleteSinglePassport on the identifiers of ids from k on,
\* one request after the other, all by `user`; the write of the request at a
\* position of `failing` throws
RECURSIVE SinglesFrom(_, _, _, _, _)
SinglesFrom(all, ids, k, user, failing) ==
  IF k > Len(ids) THEN all
  ELSE SinglesFrom(deleteSinglePassportStore(all, ids[k], user, k \in failing),
                   ids, k + 1, user, failing)

\* C21: deleteMultiplePassports on a list of identifiers leaves the store as
\* deleteSinglePassport on each identifier, one after the other in the order
\* of the list, leaves it: the same posts, entries, order and updatedBy, also
\* when the list repeats an identifier or names several entries of one post.
C21_BatchIsSequenceOfSingles ==
  [][Answers("deleteMultiplePassports", 200) =>
       posts' = SinglesFrom(posts, req'.body.passportIds, 1, req'.user,
                            req'.failing)]_vars

\* C21 witness: a list of two identifiers was answered, both entries were
\* removed, and a post that lost one of its entries to the caller is stored.
C21_Witness ==
  /\ Answered("deleteMultiplePassports", 200)
  /\ Len(req.body.passportIds) = 2
  /\ resp.count = 2
  /\ ~Has(resp, "errors")
  /\ \E i \in 1..Len(posts) : /\ Has(posts[i], "updatedBy")
                              /\ posts[i].updatedBy = req.user
                              /\ posts[i].createdBy /= req.user

\* C23: when the write of the audit record fails, the three delete handlers
\* remove what they remove and answer what they answer when it succeeds; the
\* only difference is that the log holds no record.
C23_LogFailureDoesNotBlock ==
  [][(req'.op \in DeleteOps /\ req'.logFails) =>
       /\ audit' = audit
       /\ req'.op = "deleteSinglePassport" =>
            LET i == Locate(posts, req'.id) IN
            (i /= 0 /\ ~req'.writeFails) =>
              /\ resp' = [status |-> 200,
                          data |-> [deletedPassport |-> req'.id,
                                    postId |-> posts[i]._id]]
              /\ posts' = deleteSinglePassportStore(posts, req'.id, req'.user, FALSE)
       /\ req'.op = "deletePassportPost" =>
            LET i == findById(posts, req'.id) IN
            (i /= 0 /\ ~req'.writeFails) =>
              /\ resp' = [status |-> 200]
              /\ posts' = RemoveAt(posts, i)
       /\ (req'.op = "deleteMultiplePassports" /\ resp'.status = 200) =>
            LET end == DeleteLoop([posts |-> posts, log |-> audit,
                                   deleted |-> <<>>, errors |-> <<>>],
                                  req'.body.passportIds, 1, req'.user,
                                  req'.failing, FALSE)
            IN /\ posts' = end.posts
               /\ resp'.count = Len(end.deleted)
               /\ ErrorsOf(resp') = end.errors]_vars

\* C23 witness: an entry was deleted with the answer 200 while the write of
\* the audit record failed, and the log is empty.
C23_Witness ==
  /\ Answered("deleteSinglePassport", 200)
  /\ req.logFails
  /\ audit = <<>>

\* C27: createPassportPost sets createdBy to the caller, and no operation
\* changes the createdBy of a post that stays stored.
C27_CreatedByIsImmutable ==
  [][/\ Answers("createPassportPost", 201) =>
          posts'[Len(posts')].createdBy = req'.user
     /\ \A k \in 1..Len(posts) : \A m \in 1..Len(posts') :
          posts'[m]._id = posts[k]._id =>
            posts'[m].createdBy = posts[k].createdBy]_vars

\* C27 witness: the list of a post was replaced by a caller who is not its
\* owner: updatedBy is the caller, createdBy is not.
C27_Witness ==
  /\ Answered("updatePassportPost", 200)
  /\ resp.data.createdBy /= req.user
  /\ resp.data.updatedBy = req.user

\* C22: a delete handler appends an audit record only for content it then
\* removes from the store: every record a request adds to the log holds a post
\* or an entry that the store has lost when the request is answered; and,
\* where the log can be written, whatever a request removes has its record.
C22_AuditOnlyForRemovedContent ==
  [][req'.op \in DeleteOps =>
       LET added == SubSeq(audit', Len(audit) + 1, Len(audit')) IN
       /\ \A k \in 1..Len(added) :
            LET id == added[k].passportData._id IN
            IF req'.op = "deletePassportPost"
            THEN findById(posts', id) = 0
            ELSE Occurrences(posts', id) < Occurrences(posts, id)
       /\ (posts' /= posts /\ ~req'.logFails) => Len(added) > 0]_vars

\* the requests that pass through protect
UnguardedOps == PublicOps \cup SendRoutes \cup {"none"}

\* C26: while an account's isActive is false, every request on a protected
\* route that carries a valid token of that account is answered 401 by
\* protect and changes no stored state, whenever the token was issued.
C26_InactiveIsRefusedEverywhere ==
  [][(/\ req'.op \notin UnguardedOps
      /\ req'.token.kind = "jwt"
      /\ findById(users, req'.token.id) /= 0
      /\ ~users[findById(users, req'.token.id)].isActive) =>
       /\ resp' = [status |-> 401]
       /\ users' = users
       /\ posts' = posts
       /\ emitted' = emitted
       /\ audit' = audit]_vars

\* C26 witness: the account 2, active when the server started, has been
\* deactivated, and a request of the user-management routes with its token
\* was answered 401.
C26_Witness ==
  /\ req.op \in {"toggleUserStatus", "changeUserPassword", "updateUser"}
  /\ req.token = TokenOf(2)
  /\ resp.status = 401
  /\ Len(users) = 2
  /\ users[1]._id = 1
  /\ users[2]._id = 2
  /\ ~users[2].isActive

\* the user-management operations of the admin
ManagementOps == {"updateUser", "toggleUserStatus", "deleteUser", "resetUserPassword"}

\* C28: a request of updateUser, toggleUserStatus, deleteUser or
\* resetUserPassword leaves every admin account stored and unchanged, and is
\* rejected when it targets an admin account.
C28_AdminAccountIsProtected ==
  [][req'.op \in ManagementOps =>
       \A i \in 1..Len(users) :
         users[i].role = "admin" =>
           /\ \E k \in 1..Len(users') : users'[k] = users[i]
           /\ req'.id = users[i]._id => resp'.status >= 400]_vars

\* C30: changeUserPassword changes a password only for an admin, or for the
\* account of :id itself when currentPassword matches the stored password,
\* and only to a newPassword of six characters or more; the account of :id
\* then holds the new password and nothing else changes; every other request
\* is rejected and changes nothing.
C30_PasswordChangeIsAuthorized ==
  [][req'.op = "changeUserPassword" =>
       LET caller == protect(req'.token)
           i == findById(users, req'.id)
           body == req'.body
           allowed ==
             /\ caller /= 0
             /\ i /= 0
             /\ \/ users[caller].role = "admin"
                \/ /\ users[caller]._id = req'.id
                   /\ Has(body, "currentPassword")
                   /\ matchPassword(users[i], body.currentPassword)
             /\ Has(body, "newPassword")
             /\ Len(body.newPassword) >= 6
       IN /\ users' /= users =>
               /\ allowed
               /\ resp'.status = 200
               /\ users' = [users EXCEPT ![i].password = Hash(body.newPassword)]
          /\ ~allowed => (resp'.status >= 400 /\ users' = users)
          /\ resp'.status = 200 => allowed
          /\ posts' = posts]_vars

\* C30 witness: a user changed the password of their own account, giving the
\* current one.
C30_Witness ==
  /\ Answered("changeUserPassword", 200)
  /\ \E i \in 1..Len(users) :
       /\ users[i]._id = req.id
       /\ req.token = TokenOf(req.id)
       /\ users[i].role = "user"
       /\ users[i].password = Hash(Secret1)

Strip(all) == [k \in 1..Len(all) |-> Omit(all[k], "__v")]

\* the store after updateSinglePassport alone
updateSinglePassportStore(all, user, passportId, body) ==
  LET i == Locate(all, passportId) IN
  IF i = 0 THEN all
  ELSE LET post == all[i]
           passportIndex == findIndex(post.passports, passportId)
           originalPassport == post.passports[passportIndex]
           updatedPassport ==
             Spread(Spread([_id |-> originalPassport._id], body),
                    [postDate |-> originalPassport.postDate])
           doc == CastPassport(updatedPassport, FirstFreeId)
       IN IF ~IsOwnerOrAdmin(post, user) \/ ~PassportIsValid(doc) THEN all
          ELSE [all EXCEPT ![i] = ReplacePassport(post, passportIndex, doc, user)]

\* the store after updatePassportPost alone
updatePassportPostStore(all, user, id, body) ==
  LET i == findById(all, id) IN
  IF \/ ~validatePassportEntries(body)
     \/ i = 0
     \/ ~IsNonEmptyArray(body)
  THEN all
  ELSE LET existingPassportsMap == ExistingPassportsMap(all[i].passports)
           processedPassports ==
             [j \in 1..Len(body.passports) |->
                ProcessPassport(body.passports[j], existingPassportsMap, getCurrentIST)]
           docs == CastPassports(processedPassports, FirstFreeId)
       IN IF ~IsOwnerOrAdmin(all[i], user) \/ ~AllValid(docs) THEN all
          ELSE [all EXCEPT ![i] = [@ EXCEPT !.passports = docs, !.updatedBy = user]]

\* the store after the request of a task, run alone on the store `all`
StoreAfter(all, local) ==
  CASE local.op = "updateSinglePassport" ->
         updateSinglePassportStore(all, local.user, local.id, local.body)
    [] local.op = "updatePassportPost" ->
         updatePassportPostStore(all, local.user, local.id, local.body)
    [] local.op = "deleteSinglePassport" ->
         deleteSinglePassportStore(all, local.id, local.user, FALSE)

\* the post of StoreAtStart a request is about, 0 if none
TargetAtStart(local) ==
  IF local.op = "updatePassportPost" THEN findById(StoreAtStart, local.id)
  ELSE Locate(StoreAtStart, local.id)

\* the store after the request of a task that was answered 200, run alone;
\* a request that was answered with an error counts as not run
StoreAfterAnswered(all, local) ==
  IF local.status = 200 THEN StoreAfter(all, local) ELSE all

UpdateOps == {"updateSinglePassport", "updatePassportPost"}

\* C25: when an update and a delete of an entry ran at the same time on one
\* post and both are answered, the store is what the two requests leave when
\* one runs after the other, in one of the two orders (a request answered
\* with an error may also count as not run); no post is empty and no
\* identifier is stored twice.
C25_ConcurrentEndsSequential ==
  \A t \in Tasks, u \in Tasks :
    (/\ tasks[t].pc = "done"
     /\ tasks[u].pc = "done"
     /\ tasks[t].op \in UpdateOps
     /\ tasks[u].op = "deleteSinglePassport"
     /\ TargetAtStart(tasks[t]) /= 0
     /\ TargetAtStart(tasks[t]) = TargetAtStart(tasks[u])) =>
      LET start == Strip(StoreAtStart) IN
      /\ Strip(posts) \in {StoreAfter(StoreAfter(start, tasks[t]), tasks[u]),
                           StoreAfter(StoreAfter(start, tasks[u]), tasks[t]),
                           StoreAfterAnswered(StoreAfterAnswered(start, tasks[t]), tasks[u]),
                           StoreAfterAnswered(StoreAfterAnswered(start, tasks[u]), tasks[t])}
      /\ \A i \in 1..Len(posts) : Len(posts[i].passports) > 0
      /\ \A id \in StoredIds(posts) : Occurrences(posts, id) = 1

\* the accounts that hold the role admin
Admins(all) == {i \in 1..Len(all) : all[i].role = "admin"}

\* C29: whatever the interleaving of the steps of the createAdmin requests,
\* the store never holds two admin accounts.
C29_RaceCreatesOneAdmin == Cardinality(Admins(users)) <= 1
====
